---- MODULE Spec2Model ----
(***************************************************************************)
(* A model of the recursive copier of src/copy.go: Copy, copy, fcopy,      *)
(* dcopy, lcopy and the attribute restoration at the end of copy.          *)
(*                                                                         *)
(* The source tree and the destination tree are maps from relative paths   *)
(* (sequences of child names) to entries.  The recursion of copy/dcopy is  *)
(* an explicit call stack; each action is one system call of the code      *)
(* together with the control flow that leads to the next one.  A system    *)
(* call may fail (at most MaxFaults times in a run); creating an entry in  *)
(* a directory without the owner's write bit fails as it does for an       *)
(* unprivileged process.                                                   *)
(***************************************************************************)
EXTENDS Integers, Sequences, FiniteSets, TLC

\* ------------------------------------------------------------------ bounds
\* The source tree has at most MaxEntries entries (so depth and width are
\* below MaxEntries); at most MaxFaults system calls fail in one run.
MaxEntries == 3
MaxFaults == 1
\* Where every restoration step may fail, the trees have at most
\* MaxRestoreEntries entries.
MaxRestoreEntries == 2

\* --------------------------------------------------------- program constants
\* os.FileMode(0755)
tmpPermissionForDirectory == 493
\* the restoration steps of copy: permissions, owner, time
RestoreSteps == 3
\* os.Create opens with 0666, which the usual umask 022 turns into 0644
CreatePerm == 420
\* fcopy hands os.ModePerm (0777) to MkdirAll, which the umask 022 turns into 0755
ParentPerm == 493

\* ------------------------------------------------------------------- inputs
\* 0755, and 0500 with a special bit (setgid) set: info.Mode() and
\* info.Mode().Perm() differ on the second one.
DirModes == { [perm |-> 493, special |-> FALSE], [perm |-> 320, special |-> TRUE] }
\* The source directory itself has either mode; the directories below it have
\* the second one, which the owner cannot write into.
DirModesAt(p) == IF p = <<>> THEN DirModes ELSE { [perm |-> 320, special |-> TRUE] }
\* 0400: not what os.Create gives a new file
FileModes == { [perm |-> 256, special |-> FALSE] }
\* what Lstat reports for a symlink and for a named pipe
LinkMode == [perm |-> 511, special |-> FALSE]
PipeMode == [perm |-> 420, special |-> FALSE]
\* The targets of the source path when it is a link; "." is the target of
\* the links below it: in a directory it names that directory, so that such
\* a link points to its own ancestor.
LinkTargets == { "/etc/hosts", "." }
LinkTargetsAt(p) == IF p = <<>> THEN LinkTargets ELSE { "." }

Names == 1 .. (MaxEntries - 1)

\* The children of a directory are named 1, 2, ... in the order ReadDir
\* lists them, so a tree of at most MaxEntries entries only has paths whose
\* names add up to less than MaxEntries.
RECURSIVE PathsWithin(_)
PathsWithin(n) ==
    { <<>> } \cup UNION { { <<k>> \o q : q \in PathsWithin(n - k) } : k \in 1 .. n }

Paths == PathsWithin(MaxEntries - 1)

Parent(p) == SubSeq(p, 1, Len(p) - 1)

\* ------------------------------------------------------------------ entries
\* kind: "none" (no entry), "file", "dir", "symlink", "namedpipe".
\* owner/atime: "src" for the source's ids and times, "proc" for those a
\* freshly created entry gets.
NoEntry ==
    [kind |-> "none", perm |-> 0, special |-> FALSE, content |-> <<>>,
     target |-> "", owner |-> "", times |-> ""]

SrcEntry(kind, mode, content, target) ==
    [kind |-> kind, perm |-> mode.perm, special |-> mode.special,
     content |-> content, target |-> target, owner |-> "src", times |-> "src"]

NewEntry(kind, perm, target) ==
    [kind |-> kind, perm |-> perm, special |-> FALSE, content |-> <<>>,
     target |-> target, owner |-> "proc", times |-> "proc"]

\* The directory that holds dest, when it is there before Copy is called:
\* mode 0700, with ids and times that are neither the source's nor those of an
\* entry this process creates.
ExistingParent ==
    [kind |-> "dir", perm |-> 448, special |-> FALSE, content |-> <<>>,
     target |-> "", owner |-> "other", times |-> "old"]

\* The bytes of the source file at p: distinct files hold distinct bytes.
ContentOf(p) == <<0>> \o p

\* Entries with no children, for the path p.
LeafEntries(p) ==
    { SrcEntry("file", m, ContentOf(p), "") : m \in FileModes }
    \cup { SrcEntry("dir", m, <<>>, "") : m \in DirModesAt(p) }
    \cup { SrcEntry("symlink", LinkMode, <<>>, t) : t \in LinkTargetsAt(p) }
    \cup { SrcEntry("namedpipe", PipeMode, <<>>, "") }

\* Trees as sets of <<path, entry>>: SubTrees(p, n) are the trees rooted at p
\* with exactly n entries; Forests(p, k, n) the lists of sibling trees under
\* p named k, k+1, ... with exactly n entries in all.
RECURSIVE SubTrees(_, _), Forests(_, _, _)
SubTrees(p, n) ==
    IF n = 0 THEN {}
    ELSE IF n = 1 THEN { { <<p, e>> } : e \in LeafEntries(p) }
    ELSE { { <<p, SrcEntry("dir", m, <<>>, "")>> } \cup f :
             m \in DirModesAt(p), f \in Forests(p, 1, n - 1) }

Forests(p, k, n) ==
    IF n = 0 THEN { {} }
    ELSE IF k \notin Names THEN {}
    ELSE UNION { { t \cup f : t \in SubTrees(Append(p, k), a),
                              f \in Forests(p, k + 1, n - a) } : a \in 1 .. n }

SourceTrees == UNION { SubTrees(<<>>, n) : n \in 0 .. MaxEntries } \cup { {} }

TreeMap(t) ==
    [p \in Paths |-> IF \E x \in t : x[1] = p
                     THEN (CHOOSE x \in t : x[1] = p)[2]
                     ELSE NoEntry]

\* -------------------------------------------------------------------- state
VARIABLES
    IgnoreUnsupportedFileTypes, PreservePermissions, PreserveOwner, PreserveTime,
    src,        \* the source tree
    dst,        \* the destination tree (dest itself is the path <<>>)
    destParent, \* the entry at filepath.Dir(dest), outside the destination tree
    stack,      \* the frames of copy, innermost last
    ret,        \* the error the last copy call returned
    returned,   \* per path, the error copy returned for it, Pending before that
    cpc,        \* where Copy is: "start", "call", "done"
    result,     \* what Copy returned
    handles,    \* the open file handles
    faults,     \* how many system calls have failed
    faultLimit, \* how many system calls may fail in this run
    srcReads,   \* the source paths whose content was opened or listed
    restoreRuns,\* per path, how often the attribute restoration was entered
    deferred,   \* the destination directories whose deferred chmod has run
    registry,   \* a handler registry: type bit -> handler
    entryBits,  \* the type bits of the mode of the entry that is dispatched
    deferRuns,  \* per destination directory, how often its deferred chmod has run
    listings,   \* per source path, how often ReadDir was called for it
    attempts,   \* per path, the restoration steps attempted, with their outcomes
    picked      \* the handlers the dispatches of that entry have called, in order

flags == <<IgnoreUnsupportedFileTypes, PreservePermissions, PreserveOwner, PreserveTime>>
hist == <<srcReads, restoreRuns, deferred>>
hist2 == <<deferRuns, attempts, listings>>
loopVars == <<registry, entryBits, picked>>
vars == <<flags, src, dst, destParent, stack, ret, returned, cpc, result, handles, faults, faultLimit, hist, hist2, loopVars>>


\* ------------------------------------------------------------------- errors
Nil == [type |-> "nil", path |-> <<>>, mode |-> "", errors |-> <<>>]

\* No error yet: copy has not returned.
Pending == [type |-> "pending", path |-> <<>>, mode |-> "", errors |-> <<>>]

\* The error of a failed system call op on p (*os.PathError and its like).
SysError(op, p) == [type |-> "PathError", path |-> p, mode |-> "", errors |-> <<op>>]

UnsupportedFileTypeError(info, p) ==
    [type |-> "UnsupportedFileTypeError", path |-> p, mode |-> info.kind, errors |-> <<>>]

FileCopyTasksError(p, errs) ==
    [type |-> "FileCopyTasksError", path |-> p, mode |-> "", errors |-> errs]

\* ------------------------------------------------------------------ helpers
\* The registry: type bit -> handler.
FileTypeCopyHandlers == [t \in {"symlink"} |-> "lcopy"]

\* The type bits a caller may register handlers for, the handlers, and the
\* registries: any handlers under any of the bits.
TypeBits == { "symlink", "namedpipe", "device", "chardevice" }
Handlers == { "lcopy", "custom1", "custom2" }
Registries == UNION { [S -> Handlers] : S \in SUBSET TypeBits }

\* The type bits of the modes Lstat reports for entries that are neither
\* regular files nor directories: a character device has os.ModeDevice and
\* os.ModeCharDevice.
EntryModes == { {"symlink"}, {"namedpipe"}, {"device"}, {"device", "chardevice"} }

\* info.Mode()&fileType != 0 for a registered fileType
HandlerMatches(info) == \E t \in DOMAIN FileTypeCopyHandlers : info.kind = t

\* The owner's write bit (0200) of a permission.
OwnerCanWrite(perm) == (perm \div 128) % 2 = 1

\* The directory a new entry at p goes into: dest's own parent for dest.
DirOf(p) == IF p = <<>> THEN destParent ELSE dst[Parent(p)]

\* An unprivileged process may create p when p's parent directory exists and
\* has the owner's write bit.
CanCreate(p) ==
    /\ DirOf(p).kind = "dir"
    /\ OwnerCanWrite(DirOf(p).perm)

\* os.MkdirAll resetting a directory that is already there.
MkdirAllAnew(e, perm) == NewEntry("dir", perm, "")

\* os.MkdirAll(path, perm) on the entry e at path or at one of its missing
\* ancestors: a directory that is there is left as it is, a missing one is made.
MkdirAll(e, perm) == IF e.kind = "dir" THEN e ELSE NewEntry("dir", perm, "")

\* ioutil.ReadDir: the names under p, sorted.
ReadDir(p) ==
    LET S == { k \in Names : Append(p, k) \in Paths /\ src[Append(p, k)].kind # "none" }
    IN  [i \in 1 .. Cardinality(S) |->
            CHOOSE k \in S : Cardinality({ j \in S : j < k }) = i - 1]

\* The outcomes of a system call that can succeed iff `can`: it may also fail
\* by a fault while fewer than faultLimit calls have failed.
Outcomes(can) ==
    { ok \in BOOLEAN : (ok => can) /\ (~ok => (~can \/ faults < faultLimit)) }

Count(can, ok) == IF can /\ ~ok THEN faults + 1 ELSE faults

Top == stack[Len(stack)]
Pop == SubSeq(stack, 1, Len(stack) - 1)
SetTop(f) == [stack EXCEPT ![Len(stack)] = f]
At(pc) == cpc = "call" /\ stack # <<>> /\ Top.pc = pc

\* copy's dispatch on the mode (lines 65-76): where the new frame starts.
Dispatch(info) ==
    IF info.kind = "file" THEN "fcopy_MkdirAll"
    ELSE IF info.kind = "dir" THEN "dcopy_MkdirAll"
    ELSE IF HandlerMatches(info) THEN "lcopy_Readlink"
    ELSE "copy_unsupported"

Frame(p, info) ==
    [path |-> p, info |-> info, pc |-> Dispatch(info), i |-> 0, err |-> Nil, errs |-> <<>>]

\* copy returns e to its caller.
Return(e) ==
    /\ stack' = Pop
    /\ ret' = e
    /\ returned' = [returned EXCEPT ![Top.path] = e]

Goto(f, pc) ==
    /\ stack' = SetTop([f EXCEPT !.pc = pc])
    /\ UNCHANGED <<ret, returned>>

\* copy, lines 134-141: the result of the restoration.
RestoreResult(p, errs) == IF Len(errs) > 0 THEN FileCopyTasksError(p, errs) ELSE Nil

\* The restoration steps of copy in their order: permissions (line 88),
\* owner (line 101), time (line 116). A step is run iff its flag is set.
StepEnabled(k) ==
    \/ k = 1 /\ PreservePermissions
    \/ k = 2 /\ PreserveOwner
    \/ k = 3 /\ PreserveTime

StepPc(k) == IF k = 1 THEN "restore_perm" ELSE IF k = 2 THEN "restore_owner" ELSE "restore_time"

\* The restoration given up at the first step that failed.
RestoreStopsAtFailure(f, k) ==
    LET later == { j \in k .. RestoreSteps : StepEnabled(j) }
    IN  IF later # {} /\ f.errs = <<>>
        THEN Goto(f, StepPc(CHOOSE j \in later : \A i \in later : j <= i))
        ELSE Return(RestoreResult(f.path, f.errs))

\* copy goes on from step k of the restoration: to the first step from k on
\* whose flag is set, or to the return of lines 134-141.
RestoreFrom(f, k) ==
    LET later == { j \in k .. RestoreSteps : StepEnabled(j) }
    IN  IF later # {}
        THEN Goto(f, StepPc(CHOOSE j \in later : \A i \in later : j <= i))
        ELSE Return(RestoreResult(f.path, f.errs))

\* Lines 83-87 of copy: with the content copy's error e, return it, or go on
\* to the attribute restoration.
AfterContent(f, e) ==
    IF e # Nil
    THEN Return(e) /\ restoreRuns' = restoreRuns
    ELSE /\ RestoreFrom(f, 1)
         /\ restoreRuns' = [restoreRuns EXCEPT ![f.path] = @ + 1]

\* --------------------------------------------------------------------- Init
\* Before Copy is called: nothing at dest, nothing running.
Fresh ==
    /\ dst = [p \in Paths |-> NoEntry]
    /\ stack = <<>>
    /\ ret = Nil
    /\ returned = [p \in Paths |-> Pending]
    /\ cpc = "start"
    /\ result = Nil
    /\ handles = {}
    /\ faults = 0
    /\ srcReads = {}
    /\ restoreRuns = [p \in Paths |-> 0]
    /\ deferred = {}
    /\ deferRuns = [p \in Paths |-> 0]
    /\ attempts = [p \in Paths |-> <<>>]
    /\ listings = [p \in Paths |-> 0]

\* The registry as the package sets it up, no entry dispatched on its own.
DefaultRegistry ==
    /\ registry = FileTypeCopyHandlers
    /\ entryBits = {}
    /\ picked = <<>>

\* Any flags, any source tree, dest's parent directory there.
Init ==
    /\ IgnoreUnsupportedFileTypes \in BOOLEAN
    /\ PreservePermissions \in BOOLEAN
    /\ PreserveOwner \in BOOLEAN
    /\ PreserveTime \in BOOLEAN
    /\ \E t \in SourceTrees : src = TreeMap(t)
    /\ destParent = ExistingParent
    /\ faultLimit = MaxFaults
    /\ Fresh
    /\ DefaultRegistry

\* --------------------------------------------------------------------- Copy
\* os.Stat in the place of os.Lstat: a symlink is followed to the file it names.
StatFollowingLinks(p) ==
    IF src[p].kind = "symlink"
    THEN SrcEntry("file", [perm |-> 420, special |-> FALSE], <<7>>, "")
    ELSE src[p]

\* os.Lstat(src), line 39: the entry at p itself, a symlink not followed.
Lstat(p) == src[p]

\* Copy, lines 39-44: Lstat the source and call copy.
CopyLstat ==
    /\ cpc = "start"
    /\ LET info == Lstat(<<>>)
       IN  \E ok \in Outcomes(info.kind # "none") :
            /\ faults' = Count(info.kind # "none", ok)
            /\ IF ok
               THEN /\ stack' = <<Frame(<<>>, info)>>
                    /\ cpc' = "call"
                    /\ result' = result
               ELSE /\ stack' = stack
                    /\ cpc' = "done"
                    /\ result' = SysError("lstat", <<>>)
    /\ UNCHANGED <<flags, loopVars, faultLimit, listings, deferRuns, attempts, src, destParent, dst, ret, returned, handles, hist>>

\* An UnsupportedFileTypeError dropped whatever the flag is.
CopyResultFlagNotAsked(err) ==
    IF err # Nil /\ err.type # "UnsupportedFileTypeError" THEN err ELSE Nil

\* Copy, lines 45-56: an UnsupportedFileTypeError is dropped when
\* IgnoreUnsupportedFileTypes is set, every other error is returned.
CopyResult(err) ==
    IF err # Nil
    THEN IF err.type = "UnsupportedFileTypeError"
         THEN IF ~IgnoreUnsupportedFileTypes THEN err ELSE Nil
         ELSE err
    ELSE Nil

CopyReturn ==
    /\ cpc = "call"
    /\ stack = <<>>
    /\ result' = CopyResult(ret)
    /\ cpc' = "done"
    /\ UNCHANGED <<flags, loopVars, faultLimit, listings, deferRuns, attempts, src, destParent, dst, stack, ret, returned, handles, faults, hist>>


\* -------------------------------------------------------------------- fcopy
\* fcopy, line 149: os.MkdirAll(filepath.Dir(dest), os.ModePerm). Below dest
\* the parent exists by now, so success changes nothing there; the parent of
\* dest itself is made when it is missing.
FcopyMkdirAll ==
    /\ At("fcopy_MkdirAll")
    /\ LET can == DirOf(Top.path).kind \in {"none", "dir"}
       IN  \E ok \in Outcomes(can) :
            /\ faults' = Count(can, ok)
            /\ IF ok
               THEN /\ destParent' = IF Top.path = <<>> THEN MkdirAll(destParent, ParentPerm)
                                      ELSE destParent
                    /\ Goto(Top, "fcopy_Create")
                    /\ restoreRuns' = restoreRuns
               ELSE /\ destParent' = destParent
                    /\ AfterContent(Top, SysError("mkdir", Parent(Top.path)))
    /\ UNCHANGED <<flags, loopVars, faultLimit, listings, deferRuns, attempts, src, dst, cpc, result, handles, srcReads, deferred>>

\* fcopy, lines 153-157: os.Create(dest) and the deferred f.Close().
FcopyCreate ==
    /\ At("fcopy_Create")
    /\ LET p == Top.path
           can == CanCreate(p) /\ dst[p].kind \in {"none", "file"}
       IN  \E ok \in Outcomes(can) :
            /\ faults' = Count(can, ok)
            /\ IF ok
               THEN /\ dst' = [dst EXCEPT ![p] =
                                IF dst[p].kind = "file"
                                THEN [dst[p] EXCEPT !.content = <<>>]
                                ELSE NewEntry("file", CreatePerm, "")]
                    /\ handles' = handles \cup { <<"dest", p>> }
                    /\ Goto(Top, "fcopy_Chmod")
                    /\ restoreRuns' = restoreRuns
               ELSE /\ UNCHANGED <<dst, handles>>
                    /\ AfterContent(Top, SysError("open", p))
    /\ UNCHANGED <<flags, loopVars, faultLimit, listings, deferRuns, attempts, src, destParent, cpc, result, srcReads, deferred>>

\* What os.Chmod(name, mode) leaves on the entry: the permission bits and the
\* setuid/setgid/sticky bits of mode.
ChmodTo(e, perm, special) == [e EXCEPT !.perm = perm, !.special = special]

\* The mode fcopy gives the new file (line 159): info.Mode().
FcopyMode(info) == [perm |-> info.perm, special |-> info.special]

\* fcopy, line 159: os.Chmod(f.Name(), info.Mode()).
FcopyChmod ==
    /\ At("fcopy_Chmod")
    /\ LET p == Top.path
           m == FcopyMode(Top.info)
       IN  \E ok \in Outcomes(TRUE) :
            /\ faults' = Count(TRUE, ok)
            /\ IF ok
               THEN /\ dst' = [dst EXCEPT ![p] = ChmodTo(@, m.perm, m.special)]
                    /\ Goto(Top, "fcopy_Open")
               ELSE /\ dst' = dst
                    /\ Goto([Top EXCEPT !.err = SysError("chmod", p)], "fcopy_return")
    /\ UNCHANGED <<flags, loopVars, faultLimit, listings, deferRuns, attempts, src, destParent, cpc, result, handles, hist>>

\* fcopy, lines 163-167: os.Open(src) and the deferred s.Close().
FcopyOpen ==
    /\ At("fcopy_Open")
    /\ LET p == Top.path
       IN  \E ok \in Outcomes(TRUE) :
            /\ faults' = Count(TRUE, ok)
            /\ IF ok
               THEN /\ handles' = handles \cup { <<"src", p>> }
                    /\ srcReads' = srcReads \cup { p }
                    /\ Goto(Top, "fcopy_Copy")
               ELSE /\ UNCHANGED <<handles, srcReads>>
                    /\ Goto([Top EXCEPT !.err = SysError("open", p)], "fcopy_return")
    /\ UNCHANGED <<flags, loopVars, faultLimit, listings, deferRuns, attempts, src, destParent, dst, cpc, result, restoreRuns, deferred>>

\* fcopy, line 169: io.Copy(f, s). A failed copy leaves a strict prefix.
FcopyCopy ==
    /\ At("fcopy_Copy")
    /\ LET p == Top.path
           bytes == src[p].content
       IN  \E ok \in Outcomes(TRUE) :
            /\ faults' = Count(TRUE, ok)
            /\ IF ok
               THEN /\ dst' = [dst EXCEPT ![p].content = bytes]
                    /\ Goto(Top, "fcopy_return")
               ELSE /\ \E n \in 0 .. (Len(bytes) - 1) :
                         dst' = [dst EXCEPT ![p].content = SubSeq(bytes, 1, n)]
                    /\ Goto([Top EXCEPT !.err = SysError("write", p)], "fcopy_return")
    /\ UNCHANGED <<flags, loopVars, faultLimit, listings, deferRuns, attempts, src, destParent, cpc, result, handles, hist>>

\* Only the source handle closed, f.Close() not deferred.
DeferredClosesSourceOnly(p) == { <<"src", p>> }

\* The handles that the deferred f.Close() (line 157) and s.Close() (line 167)
\* close when fcopy returns.
DeferredCloses(p) == { <<"dest", p>>, <<"src", p>> }

\* fcopy returns (line 160, 165 or 170): the deferred Close calls run, then
\* copy goes on at line 83.
FcopyReturn ==
    /\ At("fcopy_return")
    /\ handles' = handles \ DeferredCloses(Top.path)
    /\ AfterContent([Top EXCEPT !.err = Nil], Top.err)
    /\ UNCHANGED <<flags, loopVars, faultLimit, listings, deferRuns, attempts, src, destParent, dst, cpc, result, faults, srcReads, deferred>>

\* -------------------------------------------------------------------- dcopy
\* The destination directory made with the source directory's mode at once.
MkdirModeOfSource(info) == info.perm

\* The mode dcopy creates the destination directory with (line 181).
MkdirMode(info) == tmpPermissionForDirectory

\* dcopy, line 181: os.MkdirAll(destdir, tmpPermissionForDirectory); an
\* existing directory is left as it is, and a missing parent of dest is made
\* with the same mode.
DcopyMkdirAll ==
    /\ At("dcopy_MkdirAll")
    /\ LET p == Top.path
           can == \/ dst[p].kind = "dir"
                  \/ dst[p].kind = "none" /\ (CanCreate(p) \/ DirOf(p).kind = "none")
       IN  \E ok \in Outcomes(can) :
            /\ faults' = Count(can, ok)
            /\ IF ok
               THEN /\ destParent' = IF p = <<>> THEN MkdirAll(destParent, MkdirMode(Top.info))
                                      ELSE destParent
                    /\ dst' = [dst EXCEPT ![p] = MkdirAll(@, MkdirMode(Top.info))]
                    /\ Goto(Top, "dcopy_ReadDir")
                    /\ restoreRuns' = restoreRuns
               ELSE /\ UNCHANGED <<dst, destParent>>
                    /\ AfterContent(Top, SysError("mkdir", p))
    /\ UNCHANGED <<flags, loopVars, faultLimit, listings, deferRuns, attempts, src, cpc, result, handles, srcReads, deferred>>

\* dcopy, lines 187-190: ioutil.ReadDir(srcdir).
DcopyReadDir ==
    /\ At("dcopy_ReadDir")
    /\ LET p == Top.path
       IN  \E ok \in Outcomes(TRUE) :
            /\ faults' = Count(TRUE, ok)
            /\ listings' = [listings EXCEPT ![p] = @ + 1]
            /\ IF ok
               THEN /\ srcReads' = srcReads \cup { p }
                    /\ Goto([Top EXCEPT !.i = 1], "dcopy_loop")
               ELSE /\ srcReads' = srcReads
                    /\ Goto([Top EXCEPT !.err = SysError("readdir", p)], "dcopy_return")
    /\ UNCHANGED <<flags, loopVars, faultLimit, deferRuns, attempts, src, destParent, dst, cpc, result, handles, restoreRuns, deferred>>

\* The children stat'ed with os.Stat: a link to a directory is taken for that
\* directory.
ChildInfoFollowingLinks(c) ==
    IF src[c].kind = "symlink" /\ src[c].target = "." THEN src[Parent(c)] ELSE src[c]

\* The os.FileInfo that ioutil.ReadDir (line 187) gives for the child c: that
\* of Lstat, the entry itself.
ChildInfo(c) == src[c]

\* dcopy, lines 192-194: the next child is handed to copy, or the loop ends.
DcopyLoop ==
    /\ At("dcopy_loop")
    /\ LET p == Top.path
           contents == ReadDir(p)
       IN  IF Top.i <= Len(contents)
           THEN LET c == Append(p, contents[Top.i])
                IN  stack' = Append(SetTop([Top EXCEPT !.pc = "dcopy_child"]),
                                    Frame(c, ChildInfo(c)))
           ELSE stack' = SetTop([Top EXCEPT !.pc = "dcopy_return"])
    /\ UNCHANGED <<flags, loopVars, faultLimit, listings, deferRuns, attempts, src, destParent, dst, ret, returned, cpc, result, handles, faults, hist>>

\* The walk going on after every UnsupportedFileTypeError, the flag not asked.
WalkGoesOnWithoutFlag(err) ==
    IF err # Nil THEN err.type = "UnsupportedFileTypeError" ELSE TRUE

\* A walk that no error of a child stops.
WalkGoesOnAfterAnyError(err) == TRUE

\* dcopy, lines 194-205: does the walk go on after the child's error?
\* Only a nil error, or an UnsupportedFileTypeError that is to be ignored,
\* lets it.
WalkGoesOn(err) ==
    IF err # Nil
    THEN IF err.type = "UnsupportedFileTypeError"
         THEN IgnoreUnsupportedFileTypes
         ELSE FALSE
    ELSE TRUE

DcopyChild ==
    /\ At("dcopy_child")
    /\ IF WalkGoesOn(ret)
       THEN stack' = SetTop([Top EXCEPT !.i = @ + 1, !.pc = "dcopy_loop"])
       ELSE stack' = SetTop([Top EXCEPT !.err = ret, !.pc = "dcopy_return"])
    /\ UNCHANGED <<flags, loopVars, faultLimit, listings, deferRuns, attempts, src, destParent, dst, ret, returned, cpc, result, handles, faults, hist>>

\* The deferred call leaving the temporary mode in place.
DeferredModeTemporary(info) == [perm |-> tmpPermissionForDirectory, special |-> FALSE]

\* The mode the deferred call of line 185 sets: originalMode = info.Mode().
DeferredMode(info) == [perm |-> info.perm, special |-> info.special]

\* The chmod called at the end of the loop only, not deferred: a return with
\* an error leaves it out.
DeferredRunsOnSuccess(err) == err = Nil

\* Does the call deferred at line 185 run when dcopy returns err? A deferred
\* call runs at every return after the defer statement.
DeferredRuns(err) == TRUE

\* dcopy returns (line 189, 199, 203 or 208): the deferred
\* os.Chmod(destdir, originalMode) runs, its error is dropped, and copy goes
\* on at line 83.
DcopyReturn ==
    /\ At("dcopy_return")
    /\ LET p == Top.path
           m == DeferredMode(Top.info)
       IN  IF DeferredRuns(Top.err)
           THEN \E ok \in Outcomes(TRUE) :
                  /\ faults' = Count(TRUE, ok)
                  /\ dst' = IF ok THEN [dst EXCEPT ![p] = ChmodTo(@, m.perm, m.special)]
                            ELSE dst
                  /\ deferred' = deferred \cup { p }
                  /\ deferRuns' = [deferRuns EXCEPT ![p] = @ + 1]
           ELSE UNCHANGED <<faults, dst, deferred, deferRuns>>
    /\ AfterContent([Top EXCEPT !.err = Nil], Top.err)
    /\ UNCHANGED <<flags, loopVars, faultLimit, listings, attempts, src, destParent, cpc, result, handles, srcReads>>

\* -------------------------------------------------------------------- lcopy
\* lcopy, lines 214-217: os.Readlink(src). Its error is lcopy's result, which
\* line 77 of copy then overwrites.
LcopyReadlink ==
    /\ At("lcopy_Readlink")
    /\ \E ok \in Outcomes(TRUE) :
        /\ faults' = Count(TRUE, ok)
        /\ IF ok THEN Goto(Top, "lcopy_Symlink")
           ELSE Goto(Top, "copy_unsupported")
    /\ UNCHANGED <<flags, loopVars, faultLimit, listings, deferRuns, attempts, src, destParent, dst, cpc, result, handles, hist>>

\* The string lcopy gives the new link: what Readlink returned.
LinkTarget(p) == src[p].target

\* lcopy, line 218: os.Symlink(src, dest).
LcopySymlink ==
    /\ At("lcopy_Symlink")
    /\ LET p == Top.path
           can == CanCreate(p) /\ dst[p].kind = "none"
       IN  \E ok \in Outcomes(can) :
            /\ faults' = Count(can, ok)
            /\ dst' = IF ok THEN [dst EXCEPT ![p] = NewEntry("symlink", LinkMode.perm, LinkTarget(p))]
                      ELSE dst
            /\ Goto(Top, "copy_unsupported")
    /\ UNCHANGED <<flags, loopVars, faultLimit, listings, deferRuns, attempts, src, destParent, cpc, result, handles, hist>>

\* --------------------------------------------------------------------- copy
\* copy, lines 77-85: after the loop over the handlers, whether or not one
\* was called, err is set to an UnsupportedFileTypeError, and returned.
CopyUnsupported ==
    /\ At("copy_unsupported")
    /\ AfterContent(Top, UnsupportedFileTypeError(Top.info, Top.path))
    /\ UNCHANGED <<flags, loopVars, faultLimit, listings, deferRuns, attempts, src, destParent, dst, cpc, result, handles, faults, srcReads, deferred>>

\* Line 89 setting the temporary directory mode instead of the source's.
RestoredPermTemporary(info) == tmpPermissionForDirectory

\* The permission line 89 sets: info.Mode().Perm(), no special bit.
RestoredPerm(info) == info.perm

\* copy, lines 88-94: os.Chmod(dest, info.Mode().Perm()).
RestorePermissions ==
    /\ At("restore_perm")
    /\ LET p == Top.path
           can == dst[p].kind # "none"
       IN  \E ok \in Outcomes(can) :
            /\ faults' = Count(can, ok)
            /\ attempts' = [attempts EXCEPT ![p] = Append(@, [step |-> "permissions", ok |-> ok])]
            /\ IF ok
               THEN /\ dst' = [dst EXCEPT ![p] = ChmodTo(@, RestoredPerm(Top.info), FALSE)]
                    /\ RestoreFrom(Top, 2)
               ELSE /\ dst' = dst
                    /\ RestoreFrom([Top EXCEPT !.errs = Append(@, "permissions")], 2)
    /\ UNCHANGED <<flags, loopVars, faultLimit, listings, deferRuns, src, destParent, cpc, result, handles, hist>>

\* copy, lines 96-114: os.Lchown(dest, uid, gid) with the source's ids.
RestoreOwner ==
    /\ At("restore_owner")
    /\ LET p == Top.path
           can == dst[p].kind # "none"
       IN  \E ok \in Outcomes(can) :
            /\ faults' = Count(can, ok)
            /\ attempts' = [attempts EXCEPT ![p] = Append(@, [step |-> "owner", ok |-> ok])]
            /\ IF ok
               THEN /\ dst' = [dst EXCEPT ![p].owner = Top.info.owner]
                    /\ RestoreFrom(Top, 3)
               ELSE /\ dst' = dst
                    /\ RestoreFrom([Top EXCEPT !.errs = Append(@, "owner")], 3)
    /\ UNCHANGED <<flags, loopVars, faultLimit, listings, deferRuns, src, destParent, cpc, result, handles, hist>>

\* copy, lines 116-132: os.Chtimes(dest, atime, mtime) with the source's times.
RestoreTime ==
    /\ At("restore_time")
    /\ LET p == Top.path
           can == dst[p].kind # "none"
       IN  \E ok \in Outcomes(can) :
            /\ faults' = Count(can, ok)
            /\ attempts' = [attempts EXCEPT ![p] = Append(@, [step |-> "time", ok |-> ok])]
            /\ IF ok
               THEN /\ dst' = [dst EXCEPT ![p].times = Top.info.times]
                    /\ RestoreFrom(Top, 4)
               ELSE /\ dst' = dst
                    /\ RestoreFrom([Top EXCEPT !.errs = Append(@, "time")], 4)
    /\ UNCHANGED <<flags, loopVars, faultLimit, listings, deferRuns, src, destParent, cpc, result, handles, hist>>

\* --------------------------------------------------------------------- Next
Next ==
    \/ CopyLstat
    \/ CopyReturn
    \/ FcopyMkdirAll
    \/ FcopyCreate
    \/ FcopyChmod
    \/ FcopyOpen
    \/ FcopyCopy
    \/ FcopyReturn
    \/ DcopyMkdirAll
    \/ DcopyReadDir
    \/ DcopyLoop
    \/ DcopyChild
    \/ DcopyReturn
    \/ LcopyReadlink
    \/ LcopySymlink
    \/ CopyUnsupported
    \/ RestorePermissions
    \/ RestoreOwner
    \/ RestoreTime

Spec == Init /\ [][Next]_vars

\* Copy into a dest whose parent directory may be missing, unsupported types
\* being ignored so that the walk goes over the whole source tree.
InitAncestors ==
    /\ IgnoreUnsupportedFileTypes = TRUE
    /\ PreservePermissions \in BOOLEAN
    /\ PreserveOwner \in BOOLEAN
    /\ PreserveTime \in BOOLEAN
    /\ \E t \in SourceTrees : src = TreeMap(t)
    /\ destParent \in { NoEntry, ExistingParent }
    /\ faultLimit = MaxFaults
    /\ Fresh
    /\ DefaultRegistry

SpecAncestors == InitAncestors /\ [][Next]_vars

\* Copy runs in one goroutine and every call of it blocks until it is over:
\* whenever a step is possible, a step is taken.
SpecFair == Init /\ [][Next]_vars /\ WF_vars(Next)

\* Copy of a small tree in which each step of a restoration may fail.
InitRestore ==
    /\ IgnoreUnsupportedFileTypes \in BOOLEAN
    /\ PreservePermissions \in BOOLEAN
    /\ PreserveOwner \in BOOLEAN
    /\ PreserveTime \in BOOLEAN
    /\ \E n \in 0 .. MaxRestoreEntries : \E t \in SubTrees(<<>>, n) : src = TreeMap(t)
    /\ destParent = ExistingParent
    /\ faultLimit = RestoreSteps
    /\ Fresh
    /\ DefaultRegistry

SpecRestore == InitRestore /\ [][Next]_vars

\* ------------------------------------------------- the dispatch loop alone
\* The orders in which a range statement may go over the keys S of a map: Go
\* leaves the order unspecified, and it may differ from one loop to the next.
RangeOrders(S) ==
    { o \in [1 .. Cardinality(S) -> S] : \A t \in S : \E i \in DOMAIN o : o[i] = t }

\* copy, lines 69-76, going over the registry in the order o: the handler
\* under the first type bit that the entry's mode has, "none" when no bit of
\* the registry is in the mode.
FirstMatch(o, bits) ==
    LET hits == { i \in DOMAIN o : o[i] \in bits }
    IN  IF hits = {} THEN "none"
        ELSE registry[o[CHOOSE i \in hits : \A j \in hits : i <= j]]

\* One dispatch of the entry: the loop of lines 69-76 runs once more over the
\* same registry for the same mode.
RangeDispatch ==
    /\ Len(picked) < 2
    /\ \E o \in RangeOrders(DOMAIN registry) :
          picked' = Append(picked, FirstMatch(o, entryBits))
    /\ UNCHANGED <<flags, src, dst, destParent, stack, ret, returned, cpc, result, handles,
                   faults, faultLimit, hist, hist2, registry, entryBits>>

\* Any registry and any special entry, dispatched twice; Copy is not running.
InitDispatch ==
    /\ registry \in Registries
    /\ entryBits \in EntryModes
    /\ picked = <<>>
    /\ IgnoreUnsupportedFileTypes = FALSE
    /\ PreservePermissions = FALSE
    /\ PreserveOwner = FALSE
    /\ PreserveTime = FALSE
    /\ src = [p \in Paths |-> NoEntry]
    /\ destParent = ExistingParent
    /\ faultLimit = MaxFaults
    /\ Fresh

NextDispatch == RangeDispatch

SpecDispatch == InitDispatch /\ [][NextDispatch]_vars


\* ------------------------------------------------------- notions of the claims
Done == cpc = "done"
NoFault == faults = 0
DefaultFlags ==
    ~IgnoreUnsupportedFileTypes /\ ~PreservePermissions /\ ~PreserveOwner /\ ~PreserveTime
NoPreserveFlags == ~PreservePermissions /\ ~PreserveOwner /\ ~PreserveTime

SrcPaths == { p \in Paths : src[p].kind # "none" }
KindsIn(K) == src[<<>>].kind # "none" /\ \A p \in SrcPaths : src[p].kind \in K

\* The destination entry at p is the copy of the source entry at p.
CopiedAt(p) ==
    /\ dst[p].kind = src[p].kind
    /\ dst[p].content = src[p].content
    /\ dst[p].target = src[p].target

IsStrictPrefix(p, q) == Len(p) < Len(q) /\ SubSeq(q, 1, Len(p)) = p

\* p comes before q in the depth-first walk over sorted names.
Before(p, q) ==
    \/ IsStrictPrefix(p, q)
    \/ \E i \in 1 .. Len(p) :
        /\ i <= Len(q)
        /\ SubSeq(p, 1, i - 1) = SubSeq(q, 1, i - 1)
        /\ p[i] < q[i]

LaterSiblings(p) ==
    { q \in Paths : Len(q) = Len(p) /\ Len(p) > 0 /\ Parent(q) = Parent(p)
                    /\ q[Len(q)] > p[Len(p)] }

\* --------------------------------------------------------------------- C1
\* C1: for a source tree of regular files, directories and symlinks only,
\* Copy into a fresh destination with the default flags, no system call
\* failing, leaves at dest the same names (with the same kinds and link
\* targets) and the same file contents as the source.
C1_FreshCopyReproducesTree ==
    (Done /\ DefaultFlags /\ NoFault /\ KindsIn({"file", "dir", "symlink"}))
        => \A p \in Paths : CopiedAt(p)

\* --------------------------------------------------------------------- C2
\* C2: a failed attribute restoration of one entry is a soft failure: when
\* Copy returns the FileCopyTasksError of a restoration, every regular file
\* and directory of the source is at the destination.
C2_SoftFailureCompletesTree ==
    (Done /\ result.type = "FileCopyTasksError")
        => \A p \in SrcPaths : src[p].kind \in {"file", "dir"} => CopiedAt(p)

\* --------------------------------------------------------------------- C3
\* The source tree holds exactly one entry of a type with no handler.
OneUnsupported == Cardinality({ p \in SrcPaths : src[p].kind = "namedpipe" }) = 1
TheUnsupported == CHOOSE p \in SrcPaths : src[p].kind = "namedpipe"

\* C3: with one entry of an unregistered special type in the source and no
\* system call failing: if IgnoreUnsupportedFileTypes is false, Copy returns
\* an UnsupportedFileTypeError and nothing that the walk reaches after that
\* entry is created; if it is true, Copy returns nil and the destination
\* holds every other source entry and not the unsupported one.
C3_UnsupportedTypePolicy ==
    (Done /\ NoFault /\ OneUnsupported) =>
        IF ~IgnoreUnsupportedFileTypes
        THEN /\ result.type = "UnsupportedFileTypeError"
             /\ dst[TheUnsupported].kind = "none"
             /\ \A q \in Paths : Before(TheUnsupported, q) => dst[q].kind = "none"
        ELSE /\ result = Nil
             /\ dst[TheUnsupported].kind = "none"
             /\ \A p \in Paths : p # TheUnsupported => CopiedAt(p)

\* A pipe is skipped and the file listed after it is copied.
C3_Witness ==
    /\ Done /\ NoFault /\ OneUnsupported /\ IgnoreUnsupportedFileTypes
    /\ result = Nil
    /\ \E p \in SrcPaths : \E q \in LaterSiblings(p) :
        /\ src[p].kind = "namedpipe"
        /\ src[q].kind = "file"
        /\ dst[q].kind = "file"

\* --------------------------------------------------------------------- C4
\* C4 as claimed: with the three Preserve flags false, after Copy every
\* destination directory has mode 0755 and every destination file the mode
\* os.Create gave it.
C4_ModesNotCarriedOver ==
    (Done /\ NoPreserveFlags /\ NoFault) =>
        \A p \in Paths :
            /\ dst[p].kind = "dir" =>
                 dst[p].perm = tmpPermissionForDirectory /\ ~dst[p].special
            /\ dst[p].kind = "file" => dst[p].perm = CreatePerm

\* C4 as amended: with the three Preserve flags false and no system call
\* failing, after Copy every destination directory has the mode of its source
\* directory (permission and special bits, set by dcopy's deferred chmod) and
\* every destination file the mode of its source file (set by fcopy's chmod).
C4_ModesCarriedOver ==
    (Done /\ NoPreserveFlags /\ NoFault) =>
        \A p \in Paths :
            dst[p].kind \in {"dir", "file"} =>
                dst[p].perm = src[p].perm /\ dst[p].special = src[p].special

\* A 0500 directory and the 0400 file in it arrive with these modes.
C4_Witness ==
    /\ Done /\ DefaultFlags /\ NoFault /\ result = Nil
    /\ \E d \in SrcPaths : \E f \in SrcPaths :
        /\ Len(f) > 0 /\ Parent(f) = d
        /\ dst[d].kind = "dir" /\ dst[d].perm = 320 /\ dst[d].special
        /\ dst[f].kind = "file" /\ dst[f].perm = 256


\* --------------------------------------------------------------------- C5
Descendants(d) == { q \in Paths : IsStrictPrefix(d, q) }

\* C5: with PreservePermissions, when Copy has returned nil, or has returned
\* with no system call having failed, every destination entry has the
\* permission bits of its source entry, and after nil every regular file and
\* directory of the source has its destination entry; and a destination
\* directory keeps 0755 until dcopy's deferred chmod, which runs when no copy
\* of an entry below it is still going on and, if nothing failed below it,
\* when all of its source subtree is at the destination.
C5_PermissionsPreserved ==
    PreservePermissions =>
        /\ (Done /\ (NoFault \/ result = Nil)) =>
              \A p \in Paths :
                  /\ dst[p].kind # "none" => dst[p].perm = src[p].perm
                  /\ (result = Nil /\ src[p].kind \in {"file", "dir"}) =>
                        dst[p].kind = src[p].kind
        /\ \A d \in Paths :
              dst[d].kind = "dir" =>
                  IF d \notin deferred
                  THEN dst[d].perm = tmpPermissionForDirectory /\ ~dst[d].special
                  ELSE /\ \A i \in 1 .. Len(stack) : stack[i].path \notin Descendants(d)
                       /\ (NoFault /\ \A q \in Descendants(d) : src[q].kind \in {"none", "file", "dir"})
                             => \A q \in Descendants(d) : CopiedAt(q)

\* A nested 0500 directory with a file in it has been copied and restored.
C5_Witness ==
    /\ Done /\ PreservePermissions /\ result = Nil
    /\ \E d \in SrcPaths : \E f \in Descendants(d) :
        /\ Len(d) > 0
        /\ src[d].perm = 320 /\ dst[d].kind = "dir" /\ dst[d].perm = 320
        /\ d \in deferred /\ restoreRuns[d] = 1
        /\ src[f].kind = "file" /\ dst[f].kind = "file" /\ dst[f].perm = src[f].perm

\* --------------------------------------------------------------------- C6
\* C6: copy returns an UnsupportedFileTypeError for an entry iff no handler
\* matches it: with no system call failing, an UnsupportedFileTypeError is
\* only ever returned for an entry without a matching handler, Copy of a symlink (default registry, default
\* flags, nothing failing) returns nil, and Copy of a named pipe returns the
\* UnsupportedFileTypeError.
C6_UnsupportedIffNoHandler ==
    /\ (NoFault /\ ret.type = "UnsupportedFileTypeError") => ~HandlerMatches(src[ret.path])
    /\ (Done /\ NoFault /\ DefaultFlags /\ src[<<>>].kind = "symlink") => result = Nil
    /\ (Done /\ NoFault /\ DefaultFlags /\ src[<<>>].kind = "namedpipe")
          => result.type = "UnsupportedFileTypeError"

\* --------------------------------------------------------------------- C7
\* C7: the attribute restoration is entered at most once per entry, and
\* exactly once for every entry whose content copy succeeded: with no system
\* call failing, for every regular file and symlink at the destination, and
\* for every directory below which nothing stops the walk.
C7_RestorationAfterContentCopy ==
    /\ \A p \in Paths : restoreRuns[p] <= 1
    /\ (Done /\ NoFault) =>
          \A p \in Paths :
              /\ dst[p].kind \in {"file", "symlink"} => restoreRuns[p] = 1
              /\ ( /\ dst[p].kind = "dir"
                   /\ \A q \in Descendants(p) : src[q].kind \in {"none", "file", "dir"} )
                    => restoreRuns[p] = 1

\* --------------------------------------------------------------------- C8
\* C8: when the source path is a symlink, Copy never opens or lists anything
\* of the source, never makes a file or directory at the destination, and,
\* no system call failing, leaves at the destination a symlink with the
\* source link's target string.
C8_TopLevelSymlinkNotFollowed ==
    src[<<>>].kind = "symlink" =>
        /\ srcReads = {}
        /\ dst[<<>>].kind \in {"none", "symlink"}
        /\ dst[<<>>].content = <<>>
        /\ (Done /\ NoFault) =>
              dst[<<>>].kind = "symlink" /\ dst[<<>>].target = src[<<>>].target

C8_Witness ==
    /\ Done /\ NoFault
    /\ src[<<>>].kind = "symlink" /\ src[<<>>].target = "/etc/hosts"
    /\ dst[<<>>].kind = "symlink" /\ dst[<<>>].target = "/etc/hosts"

\* --------------------------------------------------------------------- C9
\* C9: for a source tree of regular files and directories, whatever the
\* directories' modes, Copy into a fresh destination with no system call
\* failing returns nil and the destination holds all of the source; and
\* while an entry is being copied into a destination directory, that
\* directory exists with mode 0755.
C9_UnwritableSourceDirectory ==
    /\ (Done /\ NoFault /\ KindsIn({"file", "dir"})) =>
          result = Nil /\ \A p \in Paths : CopiedAt(p)
    /\ \A i \in 1 .. Len(stack) :
          (i < Len(stack) \/ stack[i].pc \in {"dcopy_ReadDir", "dcopy_loop", "dcopy_child"}) =>
              /\ dst[stack[i].path].kind = "dir"
              /\ dst[stack[i].path].perm = tmpPermissionForDirectory

\* A nested source directory of mode 0500 with a file in it has been copied.
C9_Witness ==
    /\ Done /\ NoFault /\ result = Nil
    /\ \E d \in SrcPaths : \E f \in SrcPaths :
        /\ Len(d) > 0 /\ Len(f) > 0 /\ Parent(f) = d
        /\ src[d].kind = "dir" /\ ~OwnerCanWrite(src[d].perm)
        /\ src[f].kind = "file" /\ CopiedAt(f)
        /\ dst[d].kind = "dir" /\ dst[d].perm = src[d].perm

\* -------------------------------------------------------------------- C10
\* C10: a symlink that lcopy failed to make stops the walk whatever
\* IgnoreUnsupportedFileTypes is: when Copy has returned and a source symlink
\* has no destination entry, Copy's result is not nil and no sibling listed
\* after that symlink is at the destination.
C10_HandlerFailureIsHard ==
    Done =>
        \A p \in SrcPaths :
            (src[p].kind = "symlink" /\ dst[p].kind = "none") =>
                /\ result # Nil
                /\ \A q \in LaterSiblings(p) : dst[q].kind = "none"

\* -------------------------------------------------------------------- C11
\* C11 as claimed: no step of Copy changes the source tree or the directory
\* that holds dest: both are after Copy as they were before.
C11_NothingOutsideDestChanges ==
    [][src' = src /\ destParent' = destParent]_vars

\* C11 as amended: no step of Copy changes the source tree, and the only
\* change outside the destination subtree is that the MkdirAll of fcopy or of
\* dcopy, called for dest itself, makes dest's parent directory when it is
\* missing; a parent directory that is there is left as it is.
C11_OnlyMissingParentMade ==
    [][ /\ src' = src
        /\ destParent' # destParent =>
              /\ destParent.kind = "none"
              /\ destParent'.kind = "dir"
              /\ At("fcopy_MkdirAll") \/ At("dcopy_MkdirAll")
              /\ Top.path = <<>> ]_vars

\* Copy has made the missing parent of dest, and a file copy failed after it;
\* and a run whose parent directory was there has it still.
C11_Witness ==
    /\ Done /\ result # Nil
    /\ destParent = NewEntry("dir", ParentPerm, "")
    /\ src[<<>>].kind = "file"
    /\ dst[<<>>].kind = "file"

\* -------------------------------------------------------------------- C12
\* C12: for a fixed registry and a fixed entry, two dispatches of the entry
\* call the same handler (or both call none), also when the entry's mode has
\* several type bits with a registered handler.
C12_DispatchDeterministic ==
    Len(picked) = 2 => picked[1] = picked[2]

\* -------------------------------------------------------------------- C13
\* dcopy is running for the destination directory d, past its MkdirAll.
DcopyRunning(d) ==
    \E i \in 1 .. Len(stack) :
        /\ stack[i].path = d
        /\ stack[i].pc \in {"dcopy_ReadDir", "dcopy_loop", "dcopy_child", "dcopy_return"}

\* C13: the deferred chmod to the original mode runs for no path at which
\* dcopy has not made a directory; for every destination directory that dcopy
\* has made, it has not run while that dcopy call is running,
\* has run exactly once as soon as the call has returned, whatever the exit
\* (listing failed, a child failed, all children done), and from then on no
\* copy of an entry inside that directory is running.
C13_DeferredChmodOnEveryExit ==
    \A d \in Paths :
        /\ deferRuns[d] <= 1
        /\ dst[d].kind # "dir" => deferRuns[d] = 0
        /\ dst[d].kind = "dir" => deferRuns[d] = (IF DcopyRunning(d) THEN 0 ELSE 1)
        /\ deferRuns[d] = 1 =>
              \A i \in 1 .. Len(stack) : stack[i].path \notin Descendants(d)

\* The copy of a file in a nested directory failed: the deferred chmod of that
\* directory and of dest have both run, once each.
C13_Witness ==
    /\ Done /\ result.type = "PathError"
    /\ \E d \in SrcPaths :
        /\ Len(d) = 1 /\ dst[d].kind = "dir"
        /\ result.path \in Descendants(d)
        /\ deferRuns[d] = 1 /\ deferRuns[<<>>] = 1

\* -------------------------------------------------------------------- C14
\* copy has been called for p: its call is running or has returned.
Visited(p) ==
    \/ returned[p] # Pending
    \/ \E i \in 1 .. Len(stack) : stack[i].path = p

HasReturned(p) == returned[p] # Pending

\* An error of a child that lets the walk go on: nil, or an
\* UnsupportedFileTypeError while IgnoreUnsupportedFileTypes is true.
Ignorable(e) ==
    \/ e = Nil
    \/ e.type = "UnsupportedFileTypeError" /\ IgnoreUnsupportedFileTypes

EarlierSiblings(p) ==
    { q \in SrcPaths : Len(q) = Len(p) /\ Len(p) > 0 /\ Parent(q) = Parent(p)
                       /\ q[Len(q)] < p[Len(p)] }

\* The sibling listed right after p, if the paths have one.
NextSiblings(p) == { q \in LaterSiblings(p) : q[Len(q)] = p[Len(p)] + 1 }

\* C14: a child is only visited when copy has returned for every sibling
\* listed before it and each of these returned nil or an
\* UnsupportedFileTypeError that is ignored. When copy has returned any other
\* error for an entry, no sibling listed after the entry is visited, the
\* regular files and directories that the walk reached before it are still at
\* the destination, the enclosing directory's copy returns that same error,
\* and so does Copy. When the enclosing directory's copy has returned and the
\* child's error was nil or ignored, the sibling listed next after the child
\* has been visited.
C14_WalkErrorPolicy ==
    \A p \in SrcPaths :
        /\ Visited(p) =>
              \A c \in EarlierSiblings(p) : HasReturned(c) /\ Ignorable(returned[c])
        /\ (HasReturned(p) /\ ~Ignorable(returned[p])) =>
              /\ \A q \in LaterSiblings(p) : ~Visited(q)
              /\ \A q \in SrcPaths :
                    (Before(q, p) /\ src[q].kind \in {"file", "dir"}) => CopiedAt(q)
              /\ (Len(p) > 0 /\ HasReturned(Parent(p))) => returned[Parent(p)] = returned[p]
              /\ Done => result = returned[p]
        /\ (HasReturned(p) /\ Ignorable(returned[p]) /\ Len(p) > 0 /\ HasReturned(Parent(p))) =>
              \A q \in NextSiblings(p) : src[q].kind # "none" => Visited(q)

\* The copy of the first child, a regular file, failed: its sibling was not
\* visited, dest stays, and Copy returned the file's error.
C14_Witness ==
    /\ Done
    /\ \E p \in SrcPaths : \E q \in LaterSiblings(p) :
        /\ src[p].kind = "file" /\ src[q].kind # "none"
        /\ returned[p].type = "PathError"
        /\ ~Visited(q)
        /\ dst[<<>>].kind = "dir"
        /\ result = returned[p]

\* -------------------------------------------------------------------- C15
\* The steps whose flag is true, in the order of the code.
FlaggedSteps ==
    (IF PreservePermissions THEN <<"permissions">> ELSE <<>>)
    \o (IF PreserveOwner THEN <<"owner">> ELSE <<>>)
    \o (IF PreserveTime THEN <<"time">> ELSE <<>>)

StepsOf(a) == [i \in DOMAIN a |-> a[i].step]

RECURSIVE FailedOf(_)
FailedOf(a) ==
    IF a = <<>> THEN <<>>
    ELSE (IF Head(a).ok THEN <<>> ELSE <<Head(a).step>>) \o FailedOf(Tail(a))

IsPrefix(a, b) == Len(a) <= Len(b) /\ SubSeq(b, 1, Len(a)) = a

\* C15: of an entry's restoration only steps whose flag is true are ever
\* attempted, in the order permissions, owner, time, and none before the
\* restoration is entered; when copy has returned from the restoration, every
\* step whose flag is true has been attempted once, whether or not an earlier
\* step failed, and copy's result is nil if no attempted step failed and
\* otherwise the FileCopyTasksError of the destination path with one error
\* per failed step in that order.
C15_RestorationSteps ==
    \A p \in Paths :
        /\ IsPrefix(StepsOf(attempts[p]), FlaggedSteps)
        /\ restoreRuns[p] = 0 => attempts[p] = <<>>
        /\ (restoreRuns[p] = 1 /\ HasReturned(p)) =>
              /\ StepsOf(attempts[p]) = FlaggedSteps
              /\ returned[p] = IF FailedOf(attempts[p]) = <<>> THEN Nil
                               ELSE FileCopyTasksError(p, FailedOf(attempts[p]))

\* Permissions and time failed and the owner step between them succeeded.
C15_Witness ==
    \E p \in SrcPaths :
        /\ HasReturned(p)
        /\ attempts[p] = << [step |-> "permissions", ok |-> FALSE],
                            [step |-> "owner", ok |-> TRUE],
                            [step |-> "time", ok |-> FALSE] >>
        /\ returned[p] = FileCopyTasksError(p, <<"permissions", "time">>)
        /\ dst[p].owner = "src"

\* -------------------------------------------------------------------- C16
\* C16: at most two handles are open at any time, and every open handle is
\* the source or the destination handle of the file that the innermost copy
\* call, being inside fcopy after its os.Create, is copying: so no handle is
\* open once that fcopy has returned, none while a directory is listed or a
\* link is made, and none when Copy has returned.
C16_HandlesBounded ==
    /\ Cardinality(handles) <= 2
    /\ \A h \in handles :
          /\ h[1] \in {"src", "dest"}
          /\ cpc = "call" /\ stack # <<>>
          /\ h[2] = Top.path
          /\ Top.pc \in {"fcopy_Chmod", "fcopy_Open", "fcopy_Copy", "fcopy_return"}
    /\ Done => handles = {}

\* The second file of a directory is being copied with both its handles open,
\* the first file's copy and restoration being over.
C16_Witness ==
    /\ At("fcopy_Copy")
    /\ Top.path = <<2>>
    /\ handles = { <<"dest", <<2>>>>, <<"src", <<2>>>> }
    /\ dst[<<1>>].kind = "file" /\ HasReturned(<<1>>)

\* -------------------------------------------------------------------- C17
\* C17: Copy returns in the end, whatever the source tree and whatever
\* fails; ReadDir is called at most once for a source path; and a source
\* symlink, also one that points to its own ancestor directory, is never
\* listed or opened and never becomes a file or a directory at the destination.
C17_CopyTerminates ==
    /\ <>Done
    /\ [](\A p \in Paths :
            /\ listings[p] <= 1
            /\ src[p].kind = "symlink" =>
                  /\ listings[p] = 0
                  /\ p \notin srcReads
                  /\ dst[p].kind \in {"none", "symlink"})

\* Copy has returned from a directory that holds a link to the directory
\* itself and an entry after the link: the directory was listed once, the
\* link was made as a link, and the walk went on to the entry after it.
C17_Witness ==
    /\ Done /\ IgnoreUnsupportedFileTypes /\ result = Nil
    /\ src[<<>>].kind = "dir" /\ listings[<<>>] = 1
    /\ src[<<1>>].kind = "symlink" /\ src[<<1>>].target = "."
    /\ dst[<<1>>].kind = "symlink" /\ dst[<<1>>].target = "."
    /\ src[<<2>>].kind = "file" /\ HasReturned(<<2>>)

\* -------------------------------------------------------------------- C18
\* C18: when Copy has returned nil, the source path exists; every regular
\* file and every directory of the source tree is at the same path at the
\* destination, a file with the source's bytes; for each of them every step
\* whose flag is true was attempted and succeeded, so that the destination
\* entry has the source's permission bits, owner and times as far as the
\* flags ask; no attempted step of any entry failed; and if
\* IgnoreUnsupportedFileTypes is false, the source tree has no other entries.
C18_NilResultIsSound ==
    (Done /\ result = Nil) =>
        /\ src[<<>>].kind # "none"
        /\ \A p \in SrcPaths :
              /\ \A i \in DOMAIN attempts[p] : attempts[p][i].ok
              /\ src[p].kind \in {"file", "dir"} =>
                    /\ CopiedAt(p)
                    /\ StepsOf(attempts[p]) = FlaggedSteps
                    /\ PreservePermissions => dst[p].perm = src[p].perm
                    /\ PreserveOwner => dst[p].owner = src[p].owner
                    /\ PreserveTime => dst[p].times = src[p].times
              /\ src[p].kind \notin {"file", "dir"} => IgnoreUnsupportedFileTypes

\* Copy returned nil with owner and time preserved: the pipe is missing at the
\* destination, the file after it and dest have the source's owner and times.
C18_Witness ==
    /\ Done /\ result = Nil
    /\ IgnoreUnsupportedFileTypes /\ PreserveOwner /\ PreserveTime
    /\ src[<<1>>].kind = "namedpipe" /\ dst[<<1>>].kind = "none"
    /\ src[<<2>>].kind = "file" /\ CopiedAt(<<2>>)
    /\ dst[<<2>>].owner = "src" /\ dst[<<2>>].times = "src"
    /\ dst[<<>>].owner = "src"

====
